---- MODULE Spec2Model ----
(***************************************************************************)
(* The knowledge-graph tool: the GraphVisualization component (a React     *)
(* effect that builds a d3 force simulation, its tick handler and its drag *)
(* handlers) and App's updateGraph merge.                                  *)
(*                                                                         *)
(* Alpha is counted in tenths (alpha 1 is 10, the drag alpha target 0.3   *)
(* is 3, and d3's alphaMin is the lowest positive level, 1).  A position   *)
(* is a point <<x, y>> of a small set of points; the forces of a tick move *)
(* an unpinned node to any of them.                                        *)
(***************************************************************************)
EXTENDS Integers, Sequences, FiniteSets, TLC

\* ------------------------------------------------------------- bounds
\* simulations that exist at once (the current one, stale or orphaned ones)
MaxSims == 2
\* pointer gestures (mouse, touches) in progress at once
MaxGestures == 2
\* coordinates are 0..MaxCoord
MaxCoord == 1
\* a tick moves alpha by (alphaTarget - alpha) / DecayDivisor
DecayDivisor == 1
\* the nodes, and the links, one call of updateGraph is given at most
MaxBatch == 2
\* the processInput calls of one run of the application
MaxJobs == 2
\* the times the DataImporter panel is mounted
MaxMounts == 2
\* the grounding chunks of one response
MaxChunks == 4

\* ---------------------------------------------------- program constants
InitWidth == 800
InitHeight == 600
AlphaTargetDrag == 3
AlphaStart == 10
AlphaMin == 1
PaletteSize == 10
\* zoom scales are counted in hundredths: the identity, and the scale extent
ScaleIdentity == 100
ScaleMin == 10
ScaleMax == 400

Null == <<>>
Coord == 0..MaxCoord
Points == {<<c, MaxCoord - c>> : c \in Coord}
SimIds == 1..MaxSims
GestureIds == 1..MaxGestures

\* the sizes the wrapper element can have
WrapperSizes == {<<InitWidth, InitHeight>>, <<400, 300>>}

\* the scales a wheel, pinch or double-click gesture can ask for (the present
\* scale times a factor of the gesture's), and where it can put the origin
ScaleRequests == {5, 50, 800}
Translations == {<<0, 0>>, <<MaxCoord, 0>>}

\* the values of the data prop
Snapshots ==
    << [nodes |-> <<>>, links |-> <<>>],
       [nodes |-> << [id |-> "A", group |-> "g1"] >>,
        links |-> << [source |-> "A", target |-> "A", relationship |-> "r"] >>],
       [nodes |-> << [id |-> "A", group |-> "g1"] >>,
        links |-> << [source |-> "A", target |-> "Nonexistent", relationship |-> "r"] >>],
       [nodes |-> << [id |-> "A", group |-> "g1"], [id |-> "B", group |-> "g2"] >>,
        links |-> << [source |-> "A", target |-> "B", relationship |-> "r"] >>],
       [nodes |-> << [id |-> "B", group |-> "g2"], [id |-> "A", group |-> "g1"] >>,
        links |-> << [source |-> "B", target |-> "A", relationship |-> "s"],
                     [source |-> "A", target |-> "B", relationship |-> "r"] >>] >>
\* the snapshots with at most one node, and their node indices
SnapIds == 1..3
NodeIds == 1..Len(Snapshots[2].nodes)
\* the snapshots that are not empty, two of them with two nodes in either
\* order, and their node indices
SceneSnapIds == 3..5
SceneNodeIds == 1..Len(Snapshots[4].nodes)

VARIABLES
    mounted,   \* "pre" | "yes" | "no" | "crashed": the component's life
    data,      \* the data prop: an index of Snapshots (0 before the mount)
    dimensions,\* the dimensions state, <<width, height>>
    sims,      \* the simulation objects that can still act or be acted on
    cur,       \* the simulation the pending effect cleanup will stop, or 0
    svg,       \* what the SVG element holds, and which simulation made it
    gest,      \* the drag gestures in progress: which node of which simulation
    stepped,   \* the simulation whose tick was the last event, or 0
    callerData,\* the object passed as the data prop, as its owner sees it
    zoom,      \* the zoom transform d3 keeps on the SVG element, Null before
               \* the first svg.call(zoom)
    graphData, \* App's graph state: [nodes, links]
    activeTab, \* App's activeTab state
    importer,  \* the state of the mounted DataImporter, Null when there is none
    instances, \* the DataImporter instances mounted so far
    jobs,      \* the processInput calls: pending, merged or failed
    solver,    \* the state of the mounted ScenarioSolver, Null when there is none
    call       \* the handleSolve call of the mounted ScenarioSolver

vizVars == <<mounted, data, dimensions, sims, cur, svg, gest, stepped, callerData,
             zoom>>
vars == <<mounted, data, dimensions, sims, cur, svg, gest, stepped, callerData,
          zoom, graphData, activeTab, importer, instances, jobs, solver, call>>
ingestVars == <<activeTab, importer, instances, jobs>>
solveVars == <<solver, call>>

\* ------------------------------------------------------------ the engine

NoSim ==
    [timer |-> "none", torn |-> FALSE, snap |-> 0, shared |-> FALSE,
     pos |-> <<>>, pin |-> <<>>,
     alpha |-> 0, alphaTarget |-> 0, center |-> Null, handler |-> FALSE,
     links |-> <<>>, circle |-> <<>>, label |-> <<>>, line |-> <<>>,
     linkLabel |-> <<>>, fill |-> <<>>]

EmptySvg ==
    [owner |-> 0, circles |-> 0, labels |-> 0, lines |-> 0, linkLabels |-> 0,
     transform |-> Null]

IdentityTransform == [k |-> ScaleIdentity, t |-> <<0, 0>>]

NoGesture == [sim |-> 0, node |-> 0]

\* d3's initial placement is a fixed function of the node's index
InitPos(i) == <<(i - 1) % (MaxCoord + 1), MaxCoord - ((i - 1) % (MaxCoord + 1))>>

\* faulty variant: the engine is handed the caller's own objects
SpreadCopiesAlias(objs) == [shared |-> TRUE, recs |-> objs]

\* objs.map(d => ({...d})): new objects with the fields of the caller's, so
\* that what d3 writes to them does not reach the caller's
SpreadCopies(objs) == [shared |-> FALSE, recs |-> objs]

\* d3.forceSimulation(nodes): the copies get positions, the timer starts
NewSimulation(snapIdx) ==
    LET n == Len(Snapshots[snapIdx].nodes)
    IN [timer |-> "running", torn |-> FALSE, snap |-> snapIdx,
        shared |-> SpreadCopies(Snapshots[snapIdx].nodes).shared,
        pos |-> [i \in 1..n |-> InitPos(i)],
        pin |-> [i \in 1..n |-> Null],
        alpha |-> AlphaStart, alphaTarget |-> 0, center |-> Null,
        handler |-> FALSE, links |-> <<>>,
        circle |-> [i \in 1..n |-> Null], label |-> [i \in 1..n |-> Null],
        line |-> <<>>, linkLabel |-> <<>>, fill |-> <<>>]

\* forceLink's id lookup: the index of the node whose id is exactly `id`
\* (the last one, were there several), 0 when there is none
NodeIndex(nodes, id) ==
    LET hits == {i \in 1..Len(nodes) : nodes[i].id = id}
    IN IF hits = {} THEN 0 ELSE CHOOSE i \in hits : \A j \in hits : j <= i

\* forceLink(links).id(d => d.id): each link's endpoints as node indices
ResolveLinks(nodes, links) ==
    [k \in 1..Len(links) |->
        [source |-> NodeIndex(nodes, links[k].source),
         target |-> NodeIndex(nodes, links[k].target)]]

\* faulty variant: an unknown endpoint is let through
LinkInitNeverThrows(nodes, links) == FALSE

\* forceLink's initialize throws "node not found" for an unknown endpoint
LinkInitThrows(nodes, links) ==
    \E k \in 1..Len(links) :
        \/ ResolveLinks(nodes, links)[k].source = 0
        \/ ResolveLinks(nodes, links)[k].target = 0

\* the gestures in progress on simulation s (d3-drag's `active`)
Active(g, s) == Cardinality({k \in GestureIds : g[k].sim = s})

\* a simulation nothing can reach any more (no timer, no primitive on screen,
\* no gesture, no pending cleanup) is garbage
Collect(S, g, owner, current) ==
    [s \in SimIds |->
        IF /\ S[s].timer # "running"
           /\ owner # s
           /\ current # s
           /\ Active(g, s) = 0
        THEN NoSim ELSE S[s]]

HasFree(S) == \E s \in SimIds : S[s] = NoSim
FreeSlot(S) == CHOOSE s \in SimIds : S[s] = NoSim /\ \A t \in 1..(s - 1) : S[t] # NoSim

\* the effect's cleanup: simulation.stop()
Cleanup(S, c) ==
    IF c = 0 THEN S ELSE [S EXCEPT ![c].timer = "stopped", ![c].torn = TRUE]

\* faulty variant: the primitives of the previous run stay in the SVG
ClearSvgKeeps(v) == v

\* svg.selectAll("*").remove()
ClearSvg(v) == EmptySvg

\* the primitives the effect appends to the SVG for simulation s, in a new
\* group that has no transform yet: a line and a link label per link, a
\* circle and a label per node
BuildSvg(v, s, snap) ==
    [owner |-> s, transform |-> Null,
     circles |-> v.circles + Len(snap.nodes), labels |-> v.labels + Len(snap.nodes),
     lines |-> v.lines + Len(snap.links), linkLabels |-> v.linkLabels + Len(snap.links)]

\* color = d3.scaleOrdinal(d3.schemeCategory10), asked for color(d.group)
\* node by node: a group the scale has not seen takes the next colour of the
\* palette, a group it has seen keeps its colour.  A colour is its index in
\* the palette.
ScaleOrdinal(nodes) ==
    [i \in 1..Len(nodes) |->
        LET first == CHOOSE j \in 1..i :
                        /\ nodes[j].group = nodes[i].group
                        /\ \A h \in 1..(j - 1) : nodes[h].group # nodes[i].group
        IN (Cardinality({nodes[h].group : h \in 1..first}) - 1) % PaletteSize]

\* faulty variant: the effect goes on with a snapshot without nodes
EarlyReturnNever(snap) == FALSE

\* if (!data.nodes.length || !svgRef.current) return; the SVG element is
\* there whenever an effect of the mounted component runs
EarlyReturn(snap) == Len(snap.nodes) = 0

\* The simulation effect, run by React after the previous run's cleanup.
SimulationEffect(S0, c, v, snapIdx, d, g) ==
    LET S1 == Cleanup(S0, c)
        snap == Snapshots[snapIdx]
    IN IF EarlyReturn(snap)
       THEN [sims |-> Collect(S1, g, v.owner, 0), cur |-> 0, svg |-> v,
             mounted |-> "yes"]
       ELSE LET S2 == Collect(S1, g, 0, 0)
                s == FreeSlot(S2)
                sim0 == NewSimulation(snapIdx)
            IN IF LinkInitThrows(snap.nodes, snap.links)
               THEN [sims |-> [S2 EXCEPT ![s] = sim0], cur |-> 0,
                     svg |-> ClearSvg(v), mounted |-> "crashed"]
               ELSE [sims |-> [S2 EXCEPT ![s] =
                                 [sim0 EXCEPT
                                    !.links = ResolveLinks(snap.nodes, snap.links),
                                    !.center = <<d[1] \div 2, d[2] \div 2>>,
                                    !.line = [k \in 1..Len(snap.links) |-> Null],
                                    !.linkLabel =
                                        [k \in 1..Len(snap.links) |-> Null],
                                    !.fill = ScaleOrdinal(snap.nodes),
                                    !.handler = TRUE]],
                     cur |-> s, svg |-> BuildSvg(ClearSvg(v), s, snap),
                     mounted |-> "yes"]

\* whether the effect can run within the model's bound on simulations
EffectFits(S0, c, snapIdx, g) ==
    \/ EarlyReturn(Snapshots[snapIdx])
    \/ HasFree(Collect(Cleanup(S0, c), g, 0, 0))

\* what the owner of the data object finds in it: had simulation s been
\* given the object's own records, d3 would have written the positions and
\* pins into its nodes and put node references in place of its links' ids
WriteThrough(c, sim) ==
    [nodes |-> [i \in 1..Len(c.nodes) |->
                   [id |-> c.nodes[i].id, group |-> c.nodes[i].group,
                    pos |-> sim.pos[i], pin |-> sim.pin[i]]],
     links |-> [k \in 1..Len(c.links) |->
                   [source |-> NodeIndex(c.nodes, c.links[k].source),
                    target |-> NodeIndex(c.nodes, c.links[k].target),
                    relationship |-> c.links[k].relationship]]]

CallerView(c, S) ==
    IF \E s \in SimIds : S[s].shared
    THEN WriteThrough(c, S[CHOOSE s \in SimIds : S[s].shared])
    ELSE c

\* a new data object shares nothing with the simulations made from older ones
Unshare(S) == [s \in SimIds |-> [S[s] EXCEPT !.shared = FALSE]]

\* svg.call(zoom): the element gets the identity transform unless an earlier
\* run has left it one
CallZoom(z) == IF z = Null THEN IdentityTransform ELSE z

ApplyEffect(r) ==
    /\ sims' = r.sims
    /\ cur' = r.cur
    /\ svg' = r.svg
    /\ mounted' = r.mounted
    /\ zoom' = IF r.cur # 0 THEN CallZoom(zoom) ELSE zoom

\* ------------------------------------------------------ App: updateGraph

INITIAL_DATA ==
    [nodes |-> <<
        [id |-> "Artificial Intelligence", group |-> "Technology", val |-> 8],
        [id |-> "Machine Learning", group |-> "Technology", val |-> 5],
        [id |-> "Neural Networks", group |-> "Concept", val |-> 4],
        [id |-> "Healthcare", group |-> "Industry", val |-> 6],
        [id |-> "Diagnostics", group |-> "Application", val |-> 4],
        [id |-> "Privacy", group |-> "Regulation", val |-> 5],
        [id |-> "GDPR", group |-> "Regulation", val |-> 4] >>,
     links |-> <<
        [source |-> "Artificial Intelligence", target |-> "Machine Learning",
         relationship |-> "includes"],
        [source |-> "Machine Learning", target |-> "Neural Networks",
         relationship |-> "uses"],
        [source |-> "Artificial Intelligence", target |-> "Healthcare",
         relationship |-> "transforms"],
        [source |-> "Healthcare", target |-> "Diagnostics",
         relationship |-> "requires"],
        [source |-> "Artificial Intelligence", target |-> "Privacy",
         relationship |-> "impacts"],
        [source |-> "Privacy", target |-> "GDPR",
         relationship |-> "governed by"] >>]

\* the nodes and links an extraction can return
NodePool ==
    { [id |-> "Ethics", group |-> "Concept"], [id |-> "ethics", group |-> "Topic"],
      [id |-> "AI", group |-> "Technology"], [id |-> "AI-Ethics", group |-> "Concept"] }
LinkPool ==
    { [source |-> "gdpr", target |-> "Privacy", relationship |-> "limits"],
      [source |-> "Ethics", target |-> "Nonexistent", relationship |-> "informs"],
      [source |-> "AI-Ethics", target |-> "GDPR", relationship |-> "informs"],
      [source |-> "AI", target |-> "Ethics", relationship |-> "GDPR-informs"] }
Batches(S) == UNION {[1..k -> S] : k \in 0..MaxBatch}

\* String.prototype.toLowerCase on the strings the model uses
toLowerCase(s) ==
    CASE s = "Artificial Intelligence" -> "artificial intelligence"
      [] s = "Machine Learning" -> "machine learning"
      [] s = "Neural Networks" -> "neural networks"
      [] s = "Healthcare" -> "healthcare"
      [] s = "Diagnostics" -> "diagnostics"
      [] s = "Privacy" -> "privacy"
      [] s = "GDPR" -> "gdpr"
      [] s = "Ethics" -> "ethics"
      [] s = "Nonexistent" -> "nonexistent"
      [] s = "AI" -> "ai"
      [] s = "AI-Ethics" -> "ai-ethics"
      [] OTHER -> s

\* a JavaScript Map as the sequence of its entries, in insertion order
MapHas(m, key) == \E i \in 1..Len(m) : m[i].key = key
MapSet(m, key, val) ==
    IF MapHas(m, key)
    THEN [i \in 1..Len(m) |-> IF m[i].key = key THEN [key |-> key, val |-> val]
                                                ELSE m[i]]
    ELSE Append(m, [key |-> key, val |-> val])
MapValues(m) == [i \in 1..Len(m) |-> m[i].val]

\* new Map(prev.nodes.map(n => [n.id.toLowerCase(), n]))
RECURSIVE NodeMapOf(_)
NodeMapOf(nodes) ==
    IF nodes = <<>> THEN <<>>
    ELSE LET n == nodes[Len(nodes)]
         IN MapSet(NodeMapOf(SubSeq(nodes, 1, Len(nodes) - 1)), toLowerCase(n.id), n)

\* faulty variant: the map is asked for the id as it is spelled
RECURSIVE MergeNodesExactKey(_, _)
MergeNodesExactKey(m, newNodes) ==
    IF newNodes = <<>> THEN m
    ELSE LET node == Head(newNodes)
         IN MergeNodesExactKey(
              IF MapHas(m, node.id) THEN m
              ELSE MapSet(m, node.id, [id |-> node.id, group |-> node.group, val |-> 5]),
              Tail(newNodes))

\* faulty variant: an incoming node takes the place of the node that has its id
RECURSIVE MergeNodesOverwrites(_, _)
MergeNodesOverwrites(m, newNodes) ==
    IF newNodes = <<>> THEN m
    ELSE LET node == Head(newNodes)
         IN MergeNodesOverwrites(
              MapSet(m, toLowerCase(node.id),
                     [id |-> node.id, group |-> node.group, val |-> 5]),
              Tail(newNodes))

\* newNodes.forEach: a node whose lowercased id is new is added with val 5
RECURSIVE MergeNodes(_, _)
MergeNodes(m, newNodes) ==
    IF newNodes = <<>> THEN m
    ELSE LET node == Head(newNodes)
             key == toLowerCase(node.id)
         IN MergeNodes(
              IF MapHas(m, key) THEN m
              ELSE MapSet(m, key, [id |-> node.id, group |-> node.group, val |-> 5]),
              Tail(newNodes))

\* `${link.source}-${link.target}-${link.relationship}`
LinkKey(l) == l.source \o "-" \o l.target \o "-" \o l.relationship

\* whether the merge keeps an incoming link whose key is new
EndpointsKnown(m, link) ==
    MapHas(m, toLowerCase(link.source)) /\ MapHas(m, toLowerCase(link.target))

\* newLinks.forEach, on the pair (finalLinks, linkSet)
RECURSIVE MergeLinks(_, _, _, _)
MergeLinks(m, finalLinks, linkSet, newLinks) ==
    IF newLinks = <<>> THEN finalLinks
    ELSE LET link == Head(newLinks)
             key == LinkKey(link)
         IN IF key \notin linkSet /\ EndpointsKnown(m, link)
            THEN MergeLinks(m, Append(finalLinks, link), linkSet \cup {key},
                            Tail(newLinks))
            ELSE MergeLinks(m, finalLinks, linkSet, Tail(newLinks))

\* the updater updateGraph passes to setGraphData
updateGraph(prev, newNodes, newLinks) ==
    LET nodeMap == MergeNodes(NodeMapOf(prev.nodes), newNodes)
        linkSet == {LinkKey(prev.links[i]) : i \in 1..Len(prev.links)}
    IN [nodes |-> MapValues(nodeMap),
        links |-> MergeLinks(nodeMap, prev.links, linkSet, newLinks)]

\* ------------------------------------------------------ DataImporter

JobIds == 1..MaxJobs

\* what the user can type, and the files the user can choose
Texts == {"", " ", "notes"}
Files == { [name |-> "report.pdf", binary |-> TRUE, content |-> "JVBERi0="],
           [name |-> "notes.txt", binary |-> FALSE, content |-> "notes"] }

\* the graphs a model response can describe
Extractions ==
    { [nodes |-> << [id |-> "Ethics", group |-> "Concept"] >>,
       links |-> << [source |-> "Ethics", target |-> "GDPR",
                     relationship |-> "informs"] >>],
      [nodes |-> << [id |-> "ethics", group |-> "Topic"],
                    [id |-> "AI", group |-> "Technology"] >>,
       links |-> << [source |-> "AI", target |-> "ethics",
                     relationship |-> "studies"] >>] }

\* what ai.models.generateContent can do: reject, or resolve with a text
Responses ==
    { [rejected |-> TRUE, text |-> ""], [rejected |-> FALSE, text |-> ""],
      [rejected |-> FALSE, text |-> "Sorry"], [rejected |-> FALSE, text |-> "{}"],
      [rejected |-> FALSE, text |-> "graph1"], [rejected |-> FALSE, text |-> "graph2"] }

\* JSON.parse on the texts the model uses: "graph1" and "graph2" stand for
\* the JSON texts of the two graphs of Extractions, the first node's group
\* telling them apart; a text that is no JSON gives the thrown SyntaxError
JSONparse(text) ==
    CASE text = "{\"nodes\": [], \"links\": []}" -> [nodes |-> <<>>, links |-> <<>>]
      [] text = "{}" -> [empty |-> TRUE]
      [] text = "graph1" ->
            CHOOSE e \in Extractions : e.nodes[1].group = "Concept"
      [] text = "graph2" ->
            CHOOSE e \in Extractions : e.nodes[1].group = "Topic"
      [] OTHER -> [SyntaxError |-> TRUE]

\* extractKnowledgeFromText from the response on: whatever is thrown is
\* caught and thrown again as one Error; the nodes get val 5, which
\* updateGraph sets again
extractKnowledgeFromText(response) ==
    LET jsonText == IF response.text = "" THEN "{\"nodes\": [], \"links\": []}"
                    ELSE response.text
        parsed == JSONparse(jsonText)
    IN IF response.rejected \/ "SyntaxError" \in DOMAIN parsed
              \/ "nodes" \notin DOMAIN parsed
       THEN [threw |-> TRUE, value |-> Null]
       ELSE [threw |-> FALSE,
             value |-> [nodes |-> parsed.nodes, links |-> parsed.links]]

\* String.prototype.trim on the texts the model uses
trim(s) == IF s = " " THEN "" ELSE s

NoJob == [phase |-> "none", inst |-> 0, currentGraph |-> Null, result |-> Null,
          order |-> 0]

\* the useState initial values of a DataImporter, the inst-th one mounted
NewImporter(inst) ==
    [inst |-> inst, inputText |-> "", uploadedFile |-> Null,
     isProcessing |-> FALSE, notification |-> Null, timeouts |-> 0]

\* a state setter of DataImporter instance `inst` does nothing once that
\* instance is unmounted
SetState(imp, inst, new) == IF imp # Null /\ imp.inst = inst THEN new ELSE imp

\* processInput up to the await: the button is enabled, the flag goes up
processInputStart(imp) ==
    [imp EXCEPT !.isProcessing = TRUE, !.notification = Null]

\* processInput after the await resolved (and its finally block)
processInputResolved(imp) ==
    [imp EXCEPT !.inputText = "", !.uploadedFile = Null,
                !.notification = "success", !.timeouts = imp.timeouts + 1,
                !.isProcessing = FALSE]

\* faulty variant: the inputs are reset and the flag left up when the
\* extraction failed
processInputRejectedResets(imp) ==
    [imp EXCEPT !.inputText = "", !.uploadedFile = Null, !.notification = "error"]

\* processInput's catch and finally blocks
processInputRejected(imp) ==
    [imp EXCEPT !.notification = "error", !.isProcessing = FALSE]

\* faulty variant: the merge starts from the graph the request was started with
UpdaterBaseCaptured(current, captured) == captured

\* setGraphData(prev => ...): React gives the updater the state that is
\* current when the update is processed, not the currentGraph prop that
\* processInput's closure holds
UpdaterBase(current, captured) == current

\* ------------------------------------------------------ ScenarioSolver

\* the grounding chunks a response can hold: web sources (two with one uri),
\* a web source with an empty title, one without uri, and a chunk that is
\* no web source
ChunkPool ==
    { [web |-> [uri |-> "https://a.example", title |-> "A"]],
      [web |-> [uri |-> "https://a.example", title |-> "A, again"]],
      [web |-> [uri |-> "https://b.example", title |-> "B"]],
      [web |-> [uri |-> "https://c.example", title |-> ""]],
      [web |-> [title |-> "No address"]],
      [retrievedContext |-> [uri |-> "https://a.example", title |-> "A"]] }
ChunkLists == UNION {[1..k -> ChunkPool] : k \in 0..MaxChunks}

\* c.web?.uri && c.web?.title: both are there and neither is the empty string
HasWebUriAndTitle(c) ==
    /\ "web" \in DOMAIN c
    /\ "uri" \in DOMAIN c.web /\ c.web.uri # ""
    /\ "title" \in DOMAIN c.web /\ c.web.title # ""

\* groundingChunks.filter(...).map(c => ({title: c.web.title, uri: c.web.uri}))
RECURSIVE Sources(_)
Sources(chunks) ==
    IF chunks = <<>> THEN <<>>
    ELSE IF HasWebUriAndTitle(Head(chunks))
         THEN <<[title |-> Head(chunks).web.title, uri |-> Head(chunks).web.uri]>>
                 \o Sources(Tail(chunks))
         ELSE Sources(Tail(chunks))

\* new Map(sources.map(item => [item.uri, item]))
RECURSIVE SourceMapOf(_)
SourceMapOf(sources) ==
    IF sources = <<>> THEN <<>>
    ELSE LET item == sources[Len(sources)]
         IN MapSet(SourceMapOf(SubSeq(sources, 1, Len(sources) - 1)), item.uri, item)

\* faulty variant: every source is kept
UniqueSourcesKeepsAll(sources) == sources

\* Array.from(new Map(...).values())
UniqueSources(sources) == MapValues(SourceMapOf(sources))

\* what solveScenarioWithIntegration returns for a response with these chunks
solveScenarioWithIntegration(chunks) ==
    [solution |-> "solution", sources |-> UniqueSources(Sources(chunks))]

\* the useState initial values of a ScenarioSolver
NewSolver == [scenario |-> "", isSolving |-> FALSE, result |-> Null]

NoCall == [phase |-> "none", chunks |-> <<>>]

\* ----------------------------------------------------------- the actions

Init ==
    /\ mounted = "pre"
    /\ data = 0
    /\ dimensions = <<InitWidth, InitHeight>>
    /\ sims = [s \in SimIds |-> NoSim]
    /\ cur = 0
    /\ svg = EmptySvg
    /\ gest = [k \in GestureIds |-> NoGesture]
    /\ stepped = 0
    /\ callerData = Null
    /\ zoom = Null
    /\ graphData = INITIAL_DATA
    /\ activeTab = "IMPORT_DATA"
    /\ importer = NewImporter(1)
    /\ instances = 1
    /\ jobs = [j \in JobIds |-> NoJob]
    /\ solver = Null
    /\ call = NoCall

\* the first render with data prop Snapshots[i]
Mount(i) ==
    /\ mounted = "pre"
    /\ data' = i
    /\ ApplyEffect(SimulationEffect(sims, cur, svg, i, dimensions, gest))
    /\ callerData' = CallerView(Snapshots[i], sims')
    /\ stepped' = 0
    /\ UNCHANGED <<dimensions, gest, graphData, ingestVars, solveVars>>

\* the parent passes a new data object
SetData(i) ==
    /\ mounted = "yes"
    /\ EffectFits(sims, cur, i, gest)
    /\ data' = i
    /\ ApplyEffect(SimulationEffect(Unshare(sims), cur, svg, i, dimensions, gest))
    /\ callerData' = CallerView(Snapshots[i], sims')
    /\ stepped' = 0
    /\ UNCHANGED <<dimensions, gest, graphData, ingestVars, solveVars>>

\* handleResize: setDimensions with a new object, so the effect runs again
HandleResize(w) ==
    /\ mounted = "yes"
    /\ EffectFits(sims, cur, data, gest)
    /\ dimensions' = w
    /\ ApplyEffect(SimulationEffect(sims, cur, svg, data, w, gest))
    /\ stepped' = 0
    /\ callerData' = CallerView(callerData, sims')
    /\ UNCHANGED <<data, gest, graphData, ingestVars, solveVars>>

\* the component unmounts: the cleanup runs, React removes the DOM
Unmount ==
    /\ mounted = "yes"
    /\ mounted' = "no"
    /\ cur' = 0
    /\ svg' = EmptySvg
    /\ zoom' = Null
    /\ sims' = Collect(Cleanup(sims, cur), gest, 0, 0)
    /\ stepped' = 0
    /\ callerData' = CallerView(callerData, sims')
    /\ UNCHANGED <<data, dimensions, gest, graphData, ingestVars, solveVars>>

\* faulty variant: alpha stays where it is
StepAlphaStuck(sim) == sim.alpha

\* one tick of d3: alpha moves, the forces act, a pinned node is put on its pin
StepAlpha(sim) == sim.alpha + ((sim.alphaTarget - sim.alpha) \div DecayDivisor)

\* faulty variant: the forces move a pinned node like any other
PinIgnored(pin, p) == p

PinOverride(pin, p) == IF pin = Null THEN p ELSE pin

\* d.source.x of a link: undefined when the endpoint is no node
EndpointPos(sim, i) == IF i \in 1..Len(sim.pos) THEN sim.pos[i] ELSE Null

\* faulty variant: the link label sits on the link's source
MidpointAtSource(a, b) == IF a = Null \/ b = Null THEN Null ELSE <<2 * a[1], 2 * a[2]>>

\* (d.source.x + d.target.x) / 2 and (d.source.y + d.target.y) / 2, counted
\* in halves of a coordinate unit so that the division is exact
Midpoint(a, b) == IF a = Null \/ b = Null THEN Null ELSE <<a[1] + b[1], a[2] + b[2]>>

\* faulty variant: the handler leaves the primitives where the last frame put them
RenderSkipped(sim) == sim

\* the tick handler: the primitives take the positions just computed
Render(sim) ==
    IF sim.handler
    THEN [sim EXCEPT
            !.line = [k \in 1..Len(sim.links) |->
                        <<EndpointPos(sim, sim.links[k].source),
                          EndpointPos(sim, sim.links[k].target)>>],
            !.linkLabel = [k \in 1..Len(sim.links) |->
                             Midpoint(EndpointPos(sim, sim.links[k].source),
                                      EndpointPos(sim, sim.links[k].target))],
            !.circle = sim.pos,
            !.label = sim.pos]
    ELSE sim

Tick(s) ==
    /\ sims[s].timer = "running"
    /\ \E moved \in [1..Len(sims[s].pos) -> Points] :
          LET a == StepAlpha(sims[s])
              after == [sims[s] EXCEPT
                          !.alpha = a,
                          !.pos = [i \in 1..Len(sims[s].pos) |->
                                      PinOverride(sims[s].pin[i], moved[i])]]
              shown == Render(after)
              ended == IF a < AlphaMin THEN [shown EXCEPT !.timer = "stopped"]
                       ELSE shown
          IN sims' = Collect([sims EXCEPT ![s] = ended], gest, svg.owner, cur)
    /\ stepped' = s
    /\ callerData' = CallerView(callerData, sims')
    /\ UNCHANGED <<mounted, data, dimensions, cur, svg, gest, zoom, graphData, ingestVars, solveVars>>

\* dragstarted(event, d): `active` is event.active, n the node d
dragstarted(sim, active, n) ==
    [(IF active = 0
      THEN [sim EXCEPT !.alphaTarget = AlphaTargetDrag, !.timer = "running"]
      ELSE sim)
     EXCEPT !.pin[n] = sim.pos[n]]

\* dragged(event, d): p is <<event.x, event.y>>
dragged(sim, n, p) == [sim EXCEPT !.pin[n] = p]

\* faulty variant: the pin is left in place at the end of the drag
dragendedKeepsPin(sim, active, n) ==
    IF active = 0 THEN [sim EXCEPT !.alphaTarget = 0] ELSE sim

\* faulty variant: the alpha target is reset without looking at event.active
dragendedIgnoresActive(sim, active, n) ==
    [sim EXCEPT !.alphaTarget = 0, !.pin[n] = Null]

\* dragended(event, d)
dragended(sim, active, n) ==
    [(IF active = 0 THEN [sim EXCEPT !.alphaTarget = 0] ELSE sim)
     EXCEPT !.pin[n] = Null]

\* a pointer goes down on a circle that is on screen
DragStart(k, n) ==
    LET s == svg.owner IN
    /\ mounted = "yes"
    /\ s # 0
    /\ gest[k] = NoGesture
    /\ \A j \in 1..(k - 1) : gest[j] # NoGesture
    /\ n \in 1..Len(sims[s].pos)
    /\ gest' = [gest EXCEPT ![k] = [sim |-> s, node |-> n]]
    /\ sims' = [sims EXCEPT ![s] = dragstarted(sims[s], Active(gest, s), n)]
    /\ stepped' = 0
    /\ callerData' = CallerView(callerData, sims')
    /\ UNCHANGED <<mounted, data, dimensions, cur, svg, zoom, graphData, ingestVars, solveVars>>

\* the pointer of gesture k moves to p
Drag(k, p) ==
    LET s == gest[k].sim
        n == gest[k].node IN
    /\ gest[k] # NoGesture
    /\ sims' = [sims EXCEPT ![s] = dragged(sims[s], n, p)]
    /\ stepped' = 0
    /\ callerData' = CallerView(callerData, sims')
    /\ UNCHANGED <<mounted, data, dimensions, cur, svg, gest, zoom, graphData, ingestVars, solveVars>>

\* the pointer of gesture k goes up
DragEnd(k) ==
    LET s == gest[k].sim
        n == gest[k].node
        g2 == [gest EXCEPT ![k] = NoGesture] IN
    /\ gest[k] # NoGesture
    /\ gest' = g2
    /\ sims' = Collect([sims EXCEPT ![s] = dragended(sims[s], Active(g2, s), n)],
                       g2, svg.owner, cur)
    /\ stepped' = 0
    /\ callerData' = CallerView(callerData, sims')
    /\ UNCHANGED <<mounted, data, dimensions, cur, svg, zoom, graphData, ingestVars, solveVars>>

\* faulty variant: the zoom is not held to the scale extent
ClampNone(k) == k

\* scaleExtent([0.1, 4]): d3-zoom holds every scale it is asked for to the extent
Clamp(k) == IF k < ScaleMin THEN ScaleMin ELSE IF k > ScaleMax THEN ScaleMax ELSE k

\* the "zoom" listener: g.attr("transform", event.transform)
zoomed(v, transform) == [v EXCEPT !.transform = transform]

\* faulty variant: the zoom listener also reheats the current simulation
WheelReheats(r, p) ==
    /\ mounted = "yes"
    /\ zoom # Null
    /\ cur # 0
    /\ zoom' = [k |-> Clamp(r), t |-> p]
    /\ svg' = zoomed(svg, zoom')
    /\ sims' = [sims EXCEPT ![cur].alpha = AlphaStart, ![cur].timer = "running"]
    /\ stepped' = 0
    /\ callerData' = CallerView(callerData, sims')
    /\ UNCHANGED <<mounted, data, dimensions, cur, gest, graphData, ingestVars, solveVars>>

\* a wheel, pinch or double-click on the SVG asks for scale r, which moves
\* the origin to p
Wheel(r, p) ==
    /\ mounted = "yes"
    /\ zoom # Null
    /\ zoom' = [k |-> Clamp(r), t |-> p]
    /\ svg' = zoomed(svg, zoom')
    /\ stepped' = 0
    /\ UNCHANGED <<mounted, data, dimensions, sims, cur, gest, callerData, graphData, ingestVars, solveVars>>

\* a drag on the background moves the origin to p
Pan(p) ==
    /\ mounted = "yes"
    /\ zoom # Null
    /\ zoom' = [zoom EXCEPT !.t = p]
    /\ svg' = zoomed(svg, zoom')
    /\ stepped' = 0
    /\ UNCHANGED <<mounted, data, dimensions, sims, cur, gest, callerData, graphData, ingestVars, solveVars>>

\* an extraction result reaches updateGraph
UpdateGraph(newNodes, newLinks) ==
    /\ graphData' = updateGraph(graphData, newNodes, newLinks)
    /\ UNCHANGED <<vizVars, ingestVars, solveVars>>

Next ==
    \/ \E i \in SnapIds : Mount(i)
    \/ \E i \in SnapIds : SetData(i)
    \/ \E w \in WrapperSizes : HandleResize(w)
    \/ Unmount
    \/ \E s \in SimIds : Tick(s)
    \/ \E k \in GestureIds, n \in NodeIds : DragStart(k, n)
    \/ \E k \in GestureIds, p \in Points : Drag(k, p)
    \/ \E k \in GestureIds : DragEnd(k)

\* the GraphVisualization component
Spec == Init /\ [][Next]_vars

\* a click on a tab button: the panel of the other tab is unmounted
SetActiveTab(tab) ==
    /\ tab # activeTab
    /\ activeTab' = tab
    /\ IF tab = "IMPORT_DATA"
       THEN /\ instances < MaxMounts
            /\ instances' = instances + 1
            /\ importer' = NewImporter(instances + 1)
            /\ solver' = Null
       ELSE /\ instances' = instances
            /\ importer' = Null
            /\ solver' = NewSolver
    /\ call' = NoCall
    /\ UNCHANGED <<vizVars, graphData, jobs>>

\* the textarea's onChange; it is rendered without a file and disabled
\* while processing
SetInputText(txt) ==
    /\ importer # Null
    /\ importer.uploadedFile = Null
    /\ ~importer.isProcessing
    /\ importer' = [importer EXCEPT !.inputText = txt]
    /\ UNCHANGED <<vizVars, graphData, activeTab, instances, jobs, solveVars>>

\* handleFileUpload and the reader's onload
HandleFileUpload(file) ==
    /\ importer # Null
    /\ importer' =
          IF file.binary
          THEN [importer EXCEPT !.uploadedFile = [name |-> file.name,
                                                  fileInput |-> file.content],
                                !.inputText = ""]
          ELSE [importer EXCEPT !.inputText = file.content, !.uploadedFile = Null]
    /\ UNCHANGED <<vizVars, graphData, activeTab, instances, jobs, solveVars>>

clearFile ==
    /\ importer # Null
    /\ importer.uploadedFile # Null
    /\ importer' = [importer EXCEPT !.uploadedFile = Null]
    /\ UNCHANGED <<vizVars, graphData, activeTab, instances, jobs, solveVars>>

\* a click on "Ingest Knowledge": processInput runs up to its await
ProcessInput(j) ==
    /\ importer # Null
    /\ ~importer.isProcessing
    /\ trim(importer.inputText) # "" \/ importer.uploadedFile # Null
    /\ jobs[j] = NoJob
    /\ \A h \in 1..(j - 1) : jobs[h] # NoJob
    /\ importer' = processInputStart(importer)
    /\ jobs' = [jobs EXCEPT ![j] = [phase |-> "pending", inst |-> importer.inst,
                                    currentGraph |-> graphData, result |-> Null,
                                    order |-> 0]]
    /\ UNCHANGED <<vizVars, graphData, activeTab, instances, solveVars>>

\* the response to call j arrives and the extraction returns a result:
\* onUpdateGraph, then the resets
ExtractionResolves(j, response) ==
    LET result == extractKnowledgeFromText(response).value IN
    /\ jobs[j].phase = "pending"
    /\ ~extractKnowledgeFromText(response).threw
    /\ graphData' = updateGraph(UpdaterBase(graphData, jobs[j].currentGraph),
                                result.nodes, result.links)
    /\ importer' = SetState(importer, jobs[j].inst, processInputResolved(importer))
    /\ jobs' = [jobs EXCEPT ![j].phase = "merged", ![j].result = result,
                            ![j].order = 1 + Cardinality({h \in JobIds :
                                                            jobs[h].phase = "merged"})]
    /\ UNCHANGED <<vizVars, activeTab, instances, solveVars>>

\* the request of call j fails, or its response does, and the extraction throws
ExtractionRejects(j, response) ==
    /\ jobs[j].phase = "pending"
    /\ extractKnowledgeFromText(response).threw
    /\ importer' = SetState(importer, jobs[j].inst, processInputRejected(importer))
    /\ jobs' = [jobs EXCEPT ![j].phase = "failed"]
    /\ UNCHANGED <<vizVars, graphData, activeTab, instances, solveVars>>

\* a timeout set after a success fires: setNotification(null)
NotificationTimeout ==
    /\ importer # Null
    /\ importer.timeouts > 0
    /\ importer' = [importer EXCEPT !.notification = Null,
                                    !.timeouts = importer.timeouts - 1]
    /\ UNCHANGED <<vizVars, graphData, activeTab, instances, jobs, solveVars>>

\* the scenario textarea's onChange; it is disabled while solving
SetScenario(txt) ==
    /\ solver # Null
    /\ ~solver.isSolving
    /\ solver' = [solver EXCEPT !.scenario = txt]
    /\ UNCHANGED <<vizVars, graphData, ingestVars, call>>

\* handleSolve up to its await
HandleSolve ==
    /\ solver # Null
    /\ ~solver.isSolving
    /\ trim(solver.scenario) # ""
    /\ solver' = [solver EXCEPT !.isSolving = TRUE, !.result = Null]
    /\ call' = [phase |-> "pending", chunks |-> <<>>]
    /\ UNCHANGED <<vizVars, graphData, ingestVars>>

\* the response arrives with its grounding chunks: setResult(response)
SolveResolves(chunks) ==
    /\ call.phase = "pending"
    /\ solver' = [solver EXCEPT !.result = solveScenarioWithIntegration(chunks),
                                !.isSolving = FALSE]
    /\ call' = [phase |-> "resolved", chunks |-> chunks]
    /\ UNCHANGED <<vizVars, graphData, ingestVars>>

\* the request fails: the error text with no sources
SolveRejects ==
    /\ call.phase = "pending"
    /\ solver' = [solver EXCEPT
                     !.result = [solution |-> "Error generating solution. Please try again.",
                                 sources |-> <<>>],
                     !.isSolving = FALSE]
    /\ call' = [phase |-> "rejected", chunks |-> <<>>]
    /\ UNCHANGED <<vizVars, graphData, ingestVars>>

SolveNext ==
    \/ \E tab \in {"IMPORT_DATA", "SOLVE_SCENARIO"} : SetActiveTab(tab)
    \/ \E txt \in Texts : SetScenario(txt)
    \/ HandleSolve
    \/ \E chunks \in ChunkLists : SolveResolves(chunks)
    \/ SolveRejects

\* App with its ScenarioSolver panel
SpecSolve == Init /\ [][SolveNext]_vars

IngestNext ==
    \/ \E tab \in {"IMPORT_DATA", "SOLVE_SCENARIO"} : SetActiveTab(tab)
    \/ \E txt \in Texts : SetInputText(txt)
    \/ \E file \in Files : HandleFileUpload(file)
    \/ clearFile
    \/ \E j \in JobIds : ProcessInput(j)
    \/ \E j \in JobIds, response \in Responses : ExtractionResolves(j, response)
    \/ \E j \in JobIds, response \in Responses : ExtractionRejects(j, response)
    \/ NotificationTimeout

\* App with its DataImporter panel
SpecIngest == Init /\ [][IngestNext]_vars

AppNext ==
    \E newNodes \in Batches(NodePool), newLinks \in Batches(LinkPool) :
        UpdateGraph(newNodes, newLinks)

SceneNext ==
    \/ \E i \in SceneSnapIds : Mount(i)
    \/ \E i \in SceneSnapIds : SetData(i)
    \/ \E s \in SimIds : Tick(s)
    \/ \E k \in GestureIds, n \in SceneNodeIds : DragStart(k, n)
    \/ \E k \in GestureIds, p \in Points : Drag(k, p)
    \/ \E k \in GestureIds : DragEnd(k)

\* the component given one non-empty snapshot after another
SpecScene == Init /\ [][SceneNext]_vars

LiveNext ==
    \/ Mount(4)
    \/ \E s \in SimIds : Tick(s)
    \/ \E k \in GestureIds, n \in SceneNodeIds : DragStart(k, n)
    \/ \E k \in GestureIds, p \in Points : Drag(k, p)
    \/ \E k \in GestureIds : DragEnd(k)

\* the component with a connected graph, while the host keeps giving
\* animation frames to every running timer
SpecLive == Init /\ [][LiveNext]_vars /\ \A s \in SimIds : WF_vars(Tick(s))

ZoomNext ==
    \/ Mount(2)
    \/ SetData(2)
    \/ \E s \in SimIds : Tick(s)
    \/ \E k \in GestureIds, n \in NodeIds : DragStart(k, n)
    \/ \E k \in GestureIds, p \in Points : Drag(k, p)
    \/ \E k \in GestureIds : DragEnd(k)
    \/ \E r \in ScaleRequests, p \in Translations : Wheel(r, p)
    \/ \E p \in Translations : Pan(p)

\* the component under pan and zoom gestures
SpecZoom == Init /\ [][ZoomNext]_vars

\* App's graph state under updateGraph
SpecApp == Init /\ [][AppNext]_vars

\* ------------------------------------------------------------ the claims

Live(s) == sims[s] # NoSim
Running == {s \in SimIds : sims[s].timer = "running"}
Dragging(s, n) == \E k \in GestureIds : gest[k] = [sim |-> s, node |-> n]

\* C1: once the effect cleanup has stopped a simulation, no later event
\* (animation frame or pointer event) changes a position of its nodes.
TornDownNeverMoves ==
    [][\A s \in SimIds :
          (sims[s].torn /\ sims'[s].torn) => sims'[s].pos = sims[s].pos]_vars

\* C2: in every reachable state at most one simulation is ticking, and a
\* simulation whose cleanup has run is not ticking.
OneSimulationTicking ==
    /\ Cardinality(Running) <= 1
    /\ \A s \in SimIds : sims[s].torn => sims[s].timer # "running"

\* a link of snapshot i names an endpoint that is the id of none of its nodes
Dangling(i) ==
    \E k \in 1..Len(Snapshots[i].links) :
        \/ \A j \in 1..Len(Snapshots[i].nodes) :
              Snapshots[i].nodes[j].id # Snapshots[i].links[k].source
        \/ \A j \in 1..Len(Snapshots[i].nodes) :
              Snapshots[i].nodes[j].id # Snapshots[i].links[k].target

\* C3: a simulation made from a snapshot with a dangling link has no tick
\* handler and no primitives, and every link a tick handler reads has both
\* endpoints resolved to nodes of its simulation.
NoDanglingDereference ==
    \A s \in SimIds :
        /\ (Live(s) /\ Dangling(sims[s].snap)) =>
              (~sims[s].handler /\ svg.owner # s /\ sims[s].links = <<>>)
        /\ sims[s].handler =>
              \A k \in 1..Len(sims[s].links) :
                  /\ sims[s].links[k].source \in 1..Len(sims[s].pos)
                  /\ sims[s].links[k].target \in 1..Len(sims[s].pos)

\* C3 witness: the effect has run on the snapshot with the dangling link and
\* threw before the handler was registered
DanglingRejected ==
    /\ mounted = "crashed"
    /\ Dangling(data)
    /\ \E s \in SimIds : Live(s) /\ sims[s].snap = data /\ ~sims[s].handler

\* C9: while the component holds a snapshot with zero nodes, no simulation is
\* ticking and the SVG holds no primitive.
EmptySnapshotIdle ==
    (mounted = "yes" /\ Len(Snapshots[data].nodes) = 0) =>
        (Running = {} /\ svg = EmptySvg)

\* C10: a resize to a new viewport leaves the positions of the current
\* simulation's nodes as they were.
ResizeKeepsPositions ==
    [][(dimensions' # dimensions /\ cur # 0) =>
          (cur' # 0 /\ sims'[cur'].pos = sims[cur].pos)]_vars

\* C5: a tick leaves every pinned node exactly on its pin, the point the
\* last drag event of the node gave it.
PinFidelity ==
    \A s \in SimIds :
        (stepped = s /\ Live(s)) =>
            \A n \in 1..Len(sims[s].pos) :
                sims[s].pin[n] # Null => sims[s].pos[n] = sims[s].pin[n]

\* C5 witness: a tick has just put a node on a pin that a drag had moved
\* away from where the node was placed
PinnedAndStepped ==
    \E s \in SimIds : \E n \in 1..Len(sims[s].pos) :
        /\ stepped = s
        /\ Dragging(s, n)
        /\ sims[s].pin[n] # Null
        /\ sims[s].pin[n] # InitPos(n)
        /\ sims[s].pos[n] = sims[s].pin[n]

AlphaTargetFollowsDrags ==
    /\ [](\A s \in SimIds :
            Live(s) => sims[s].alphaTarget =
                          IF Active(gest, s) > 0 THEN AlphaTargetDrag ELSE 0)
    /\ [][\A k \in GestureIds :
            (gest[k] = NoGesture /\ gest'[k] # NoGesture
                /\ Active(gest, gest'[k].sim) = 0)
            => /\ sims'[gest'[k].sim].timer = "running"
               /\ sims'[gest'[k].sim].alphaTarget = AlphaTargetDrag]_vars

\* C7 witness: one of two overlapping drags has ended, the other goes on
OverlappingDragEnded ==
    \E s \in SimIds : \E n \in 1..Len(sims[s].pos) :
        /\ Active(gest, s) = 1
        /\ Dragging(s, n)
        /\ sims[s].pin[n] = Null
        /\ sims[s].alphaTarget = AlphaTargetDrag

\* C8: the primitives a tick leaves on its simulation show the positions
\* that tick computed, and a pinned node's circle is on its latest pin.
RenderShowsThisFrame ==
    \A s \in SimIds :
        (stepped = s /\ Live(s) /\ sims[s].handler) =>
            /\ sims[s].circle = sims[s].pos
            /\ \A k \in 1..Len(sims[s].links) :
                  sims[s].line[k] = <<sims[s].pos[sims[s].links[k].source],
                                      sims[s].pos[sims[s].links[k].target]>>
            /\ \A n \in 1..Len(sims[s].pos) :
                  sims[s].pin[n] # Null => sims[s].circle[n] = sims[s].pin[n]

\* C8 witness: a drag event and then a tick, whose render shows the node on
\* the pin the drag event set
DragThenTickRendered ==
    \E s \in SimIds : \E n \in 1..Len(sims[s].pos) :
        /\ stepped = s
        /\ sims[s].handler
        /\ sims[s].pin[n] # Null
        /\ sims[s].pin[n] # InitPos(n)
        /\ sims[s].circle[n] = sims[s].pin[n]

\* C4: every link of the graph state has a source and a target that are
\* each exactly the id of a node of the graph state.
LinksNameNodes ==
    \A i \in 1..Len(graphData.links) :
        /\ \E j \in 1..Len(graphData.nodes) :
              graphData.nodes[j].id = graphData.links[i].source
        /\ \E j \in 1..Len(graphData.nodes) :
              graphData.nodes[j].id = graphData.links[i].target

\* the SVG holds the primitives of snapshot i and no others, made for the
\* current simulation
SceneOf(i) ==
    /\ cur # 0
    /\ svg.owner = cur
    /\ sims[cur].snap = i
    /\ svg.circles = Len(Snapshots[i].nodes)
    /\ svg.labels = Len(Snapshots[i].nodes)
    /\ svg.lines = Len(Snapshots[i].links)
    /\ svg.linkLabels = Len(Snapshots[i].links)

\* simulation state that comes from snapshot i alone: d3's initial placement,
\* no pin, full alpha, nothing drawn yet
FreshFrom(sim, i) ==
    /\ sim.snap = i
    /\ sim.pos = [n \in 1..Len(Snapshots[i].nodes) |-> InitPos(n)]
    /\ sim.pin = [n \in 1..Len(Snapshots[i].nodes) |-> Null]
    /\ sim.circle = [n \in 1..Len(Snapshots[i].nodes) |-> Null]
    /\ sim.alpha = AlphaStart
    /\ sim.alphaTarget = 0

\* C11 as claimed: after the snapshot is replaced by any non-empty one, the
\* SVG holds exactly the primitives of the new snapshot, and the current
\* simulation is built from the new snapshot alone.
SceneRebuiltForAnySnapshot ==
    /\ []((mounted \in {"yes", "crashed"} /\ Len(Snapshots[data].nodes) > 0)
            => SceneOf(data))
    /\ [][(data' # data /\ Len(Snapshots[data'].nodes) > 0)
            => (cur' # 0 /\ FreshFrom(sims'[cur'], data'))]_vars

\* C11 as amended: after the snapshot is replaced by a non-empty one whose
\* links all name nodes of it, the SVG holds exactly one circle and one label
\* per node and one line and one link label per link of the new snapshot, and
\* the current simulation is built from the new snapshot alone.
SceneRebuilt ==
    /\ []((mounted \in {"yes", "crashed"} /\ Len(Snapshots[data].nodes) > 0
             /\ ~Dangling(data))
            => SceneOf(data))
    /\ [][(data' # data /\ Len(Snapshots[data'].nodes) > 0 /\ ~Dangling(data'))
            => (cur' # 0 /\ FreshFrom(sims'[cur'], data'))]_vars

\* C11 witness: the two-node snapshot was replaced by the other one while a
\* drag held on to the old simulation, whose nodes had moved; the new
\* simulation starts from the initial placement
ReplacedAfterMoving ==
    /\ data = 5
    /\ SceneOf(5)
    /\ FreshFrom(sims[cur], 5)
    /\ \E s \in SimIds :
          /\ sims[s].torn
          /\ sims[s].snap = 4
          /\ sims[s].pos # [n \in 1..Len(Snapshots[4].nodes) |-> InitPos(n)]

\* C12: after a tick that was rendered, each line runs from the position of
\* its link's source node to the position of its target node, each link label
\* is at the midpoint of the two, and each circle and each node label is at
\* its node's position.
TickDrawsGraph ==
    \A s \in SimIds :
        (stepped = s /\ Live(s) /\ sims[s].handler) =>
            /\ \A k \in 1..Len(sims[s].links) :
                  LET a == sims[s].pos[sims[s].links[k].source]
                      b == sims[s].pos[sims[s].links[k].target]
                  IN /\ sims[s].line[k] = <<a, b>>
                     /\ sims[s].linkLabel[k] = <<a[1] + b[1], a[2] + b[2]>>
            /\ \A n \in 1..Len(sims[s].pos) :
                  /\ sims[s].circle[n] = sims[s].pos[n]
                  /\ sims[s].label[n] = sims[s].pos[n]

\* C12 witness: a rendered tick of a simulation whose link joins two nodes
\* that are apart, the first of them moved from where it was placed
TickDrewSeparateNodes ==
    \E s \in SimIds : \E k \in 1..Len(sims[s].links) :
        /\ stepped = s
        /\ sims[s].handler
        /\ sims[s].pos[sims[s].links[k].source] # sims[s].pos[sims[s].links[k].target]
        /\ sims[s].pos[1] # InitPos(1)
        /\ sims[s].linkLabel[k] # Null

\* C13: the object the caller passed as the data prop stays as the caller
\* made it: its nodes carry no position or pin, and its links' source and
\* target are still the id strings.
CallerSnapshotIntact ==
    data # 0 => callerData = Snapshots[data]

\* C13 witness: the current simulation has resolved its links to nodes, has
\* ticked, and holds a dragged node on a pin away from its first place
EngineWroteItsCopies ==
    /\ cur # 0
    /\ stepped = cur
    /\ Len(sims[cur].links) > 0
    /\ \E n \in 1..Len(sims[cur].pos) :
          /\ Dragging(cur, n)
          /\ sims[cur].pin[n] # Null
          /\ sims[cur].pos[n] # InitPos(n)
    /\ callerData = Snapshots[data]

\* C14: no two nodes of the graph state have the same id, nor ids that differ
\* only in the case of their letters.
NodeIdsUniqueIgnoringCase ==
    \A i, j \in 1..Len(graphData.nodes) :
        i # j => toLowerCase(graphData.nodes[i].id) # toLowerCase(graphData.nodes[j].id)

\* C14 witness: "ethics" came in first and a later batch brought another
\* node, so that every batch holding "Ethics" or "ethics", twice too, has
\* been merged into a graph that already has the id
LowercaseEthicsFirst ==
    /\ Len(graphData.nodes) > Len(INITIAL_DATA.nodes) + 1
    /\ graphData.nodes[Len(INITIAL_DATA.nodes) + 1].id = "ethics"

\* C15: when the effect runs again, a group that had a colour in the scene
\* before has the same colour in the scene after.
ColourStableAcrossRebuilds ==
    [][(cur # 0 /\ cur' # 0) =>
          \A n \in 1..Len(sims[cur].fill), m \in 1..Len(sims'[cur'].fill) :
              Snapshots[sims[cur].snap].nodes[n].group
                    = Snapshots[sims'[cur'].snap].nodes[m].group
                 => sims[cur].fill[n] = sims'[cur'].fill[m]]_vars

\* C16: the scale of the zoom transform, on the SVG element and on the scene
\* group, is never below 0.1 and never above 4.
ScaleWithinExtent ==
    /\ zoom # Null => (ScaleMin <= zoom.k /\ zoom.k <= ScaleMax)
    /\ svg.transform # Null =>
          (ScaleMin <= svg.transform.k /\ svg.transform.k <= ScaleMax)

\* C16 witness: a gesture asked for a scale above the extent and the scene
\* group is drawn at the largest scale
ZoomedToLargestScale ==
    /\ cur # 0
    /\ svg.owner = cur
    /\ svg.transform # Null
    /\ svg.transform.k = ScaleMax
    /\ ScaleMax \notin ScaleRequests

\* C17: a pan or zoom gesture changes the zoom transform and the transform
\* of the scene group and nothing else: every simulation (positions, pins,
\* links, alpha, alpha target, timer), the drags in progress and the
\* primitives stay as they were.
PanZoomOnlyTransforms ==
    [][(zoom # Null /\ zoom' # Null /\ zoom' # zoom) =>
          /\ sims' = sims
          /\ gest' = gest
          /\ cur' = cur
          /\ svg' = [svg EXCEPT !.transform = zoom']
          /\ <<mounted, data, dimensions>>' = <<mounted, data, dimensions>>]_vars

\* C17 witness: the scene is panned and zoomed while its simulation runs
\* with a dragged node on a pin
ZoomedWhileDragging ==
    /\ cur # 0
    /\ svg.owner = cur
    /\ svg.transform # Null
    /\ svg.transform # IdentityTransform
    /\ svg.transform = zoom
    /\ stepped = 0
    /\ sims[cur].timer = "running"
    /\ sims[cur].alphaTarget = AlphaTargetDrag
    /\ \E n \in 1..Len(sims[cur].pos) :
          Dragging(cur, n) /\ sims[cur].pin[n] # Null /\ sims[cur].pin[n] # InitPos(n)

ResizeWithoutSimulationIsNoOp ==
    [][/\ (mounted = "yes" /\ Len(Snapshots[data].nodes) = 0
              /\ dimensions' # dimensions)
          => (mounted' = "yes" /\ sims' = sims /\ cur' = cur /\ svg' = svg
                 /\ gest' = gest /\ zoom' = zoom)
       /\ mounted # "yes" => dimensions' = dimensions]_vars

\* C19 witness: the component was resized while it held the empty snapshot
\* and has no simulation and no primitive
ResizedWhileEmpty ==
    /\ mounted = "yes"
    /\ Len(Snapshots[data].nodes) = 0
    /\ dimensions # <<InitWidth, InitHeight>>
    /\ cur = 0
    /\ sims = [s \in SimIds |-> NoSim]
    /\ svg = EmptySvg

IsPrefix(a, b) == Len(a) <= Len(b) /\ SubSeq(b, 1, Len(a)) = a

\* C20: an update leaves the nodes and the links the graph state had, each
\* as it was and in its place, at the front of the new lists, and no node it
\* adds has the id of a node that was there, ignoring case.
GraphOnlyGrows ==
    [][/\ IsPrefix(graphData.nodes, graphData'.nodes)
       /\ IsPrefix(graphData.links, graphData'.links)
       /\ \A j \in (Len(graphData.nodes) + 1)..Len(graphData'.nodes) :
             \A i \in 1..Len(graphData.nodes) :
                 toLowerCase(graphData'.nodes[j].id)
                    # toLowerCase(graphData.nodes[i].id)]_vars

\* C20 witness: "Ethics" came in as a Concept and is still that, with the
\* val it was given, after later batches brought more nodes and a link
EthicsKeptAsEntered ==
    /\ Len(graphData.nodes) > Len(INITIAL_DATA.nodes) + 1
    /\ Len(graphData.links) > Len(INITIAL_DATA.links)
    /\ graphData.nodes[Len(INITIAL_DATA.nodes) + 1]
          = [id |-> "Ethics", group |-> "Concept", val |-> 5]

Triple(l) == <<l.source, l.target, l.relationship>>

\* the links of batch nl, from the k-th on, whose index is in K, in order
RECURSIVE LinksAt(_, _, _)
LinksAt(nl, K, k) ==
    IF k > Len(nl) THEN <<>>
    ELSE IF k \in K THEN <<nl[k]>> \o LinksAt(nl, K, k + 1)
    ELSE LinksAt(nl, K, k + 1)

\* C21: no two links of the graph state have the same (source, target,
\* relationship), and whatever batch updateGraph is given, the links it
\* appends are exactly those links of the batch whose triple is neither in
\* the graph nor earlier in the batch and whose endpoints are, ignoring case,
\* ids of nodes present after the node merge.
AppendsExactlyNewTriples ==
    /\ \A i, j \in 1..Len(graphData.links) :
          i # j => Triple(graphData.links[i]) # Triple(graphData.links[j])
    /\ \A nn \in Batches(NodePool), nl \in Batches(LinkPool) :
          LET new == updateGraph(graphData, nn, nl)
              ids == {toLowerCase(new.nodes[i].id) : i \in 1..Len(new.nodes)}
              K == {k \in 1..Len(nl) :
                      /\ \A i \in 1..Len(graphData.links) :
                            Triple(graphData.links[i]) # Triple(nl[k])
                      /\ \A h \in 1..(k - 1) : Triple(nl[h]) # Triple(nl[k])
                      /\ toLowerCase(nl[k].source) \in ids
                      /\ toLowerCase(nl[k].target) \in ids}
          IN new.links = graphData.links \o LinksAt(nl, K, 1)

\* the graph state has a node with the id of `node`, ignoring case
InGraph(node) ==
    \E i \in 1..Len(graphData.nodes) :
        toLowerCase(graphData.nodes[i].id) = toLowerCase(node.id)

\* C22: every node of every extraction result that has arrived is in the
\* graph state, whatever graph its request was started with and in whatever
\* order the results arrived; and the arrival of a result leaves the nodes
\* and links that were in the graph state then where they were.
ArrivalsMergeIntoCurrentGraph ==
    /\ [](\A j \in JobIds :
            jobs[j].phase = "merged" =>
                \A n \in 1..Len(jobs[j].result.nodes) :
                    InGraph(jobs[j].result.nodes[n]))
    /\ [][\A j \in JobIds :
            (jobs[j].phase = "pending" /\ jobs'[j].phase = "merged")
            => /\ IsPrefix(graphData.nodes, graphData'.nodes)
               /\ IsPrefix(graphData.links, graphData'.links)]_vars

\* C22 witness: two requests were started with the initial graph, from two
\* mounts of the panel; the second one's result arrived first and added
\* nodes, and the first one's result was then merged into that graph
ArrivedInReverseOrder ==
    /\ jobs[1].phase = "merged" /\ jobs[2].phase = "merged"
    /\ jobs[1].inst # jobs[2].inst
    /\ jobs[1].currentGraph = INITIAL_DATA /\ jobs[2].currentGraph = INITIAL_DATA
    /\ jobs[2].order = 1 /\ jobs[1].order = 2
    /\ jobs[1].result # jobs[2].result
    /\ Len(graphData.nodes) = Len(INITIAL_DATA.nodes) + 2
    /\ Len(graphData.links) > Len(INITIAL_DATA.links)

\* call j was started by the DataImporter that is mounted
OfMounted(j) == importer # Null /\ importer.inst = jobs[j].inst

\* C23: when the extraction of a processInput call fails, the graph state
\* stays as it is and the panel that made the call keeps its text and its
\* file and shows the error notification; when a call ends, either way, the
\* panel that made it is not processing; and a panel is processing only
\* while a call of its own is pending.
FailedExtractionKeepsInputs ==
    /\ [][\A j \in JobIds :
            (jobs[j].phase = "pending" /\ jobs'[j].phase = "failed")
            => /\ graphData' = graphData
               /\ OfMounted(j) =>
                     /\ importer'.inputText = importer.inputText
                     /\ importer'.uploadedFile = importer.uploadedFile
                     /\ importer'.notification = "error"]_vars
    /\ [][\A j \in JobIds :
            (jobs[j].phase = "pending" /\ jobs'[j].phase \in {"merged", "failed"}
                /\ OfMounted(j))
            => ~importer'.isProcessing]_vars
    /\ []((importer # Null /\ importer.isProcessing)
            => \E j \in JobIds : jobs[j].phase = "pending" /\ OfMounted(j))

\* C23 witness: a call of the mounted panel has failed; the panel shows the
\* error, still has what was put in, and is not processing
FailedAndRetained ==
    \E j \in JobIds :
        /\ jobs[j].phase = "failed"
        /\ OfMounted(j)
        /\ importer.notification = "error"
        /\ importer.inputText = "notes" \/ importer.uploadedFile # Null
        /\ ~importer.isProcessing
        /\ graphData = INITIAL_DATA


\* the grounding chunks of the answered call that carry a web uri and a web title
GoodChunks == {k \in 1..Len(call.chunks) : HasWebUriAndTitle(call.chunks[k])}

\* where a uri first occurs among those chunks
FirstOccurrence(uri) ==
    CHOOSE k \in GoodChunks :
        /\ call.chunks[k].web.uri = uri
        /\ \A m \in GoodChunks : call.chunks[m].web.uri = uri => k <= m

\* C24: the source list returned by solveScenarioWithIntegration holds only
\* grounding chunks that have both a web uri and a web title, its uris are
\* pairwise distinct, and every distinct uri of those chunks is in it exactly
\* once, in the order of each uri's first occurrence.
SourcesAreDistinctWebChunks ==
    call.phase = "resolved" =>
        LET src == solver.result.sources
        IN /\ \A i \in 1..Len(src) :
                  \E k \in GoodChunks :
                      src[i] = [title |-> call.chunks[k].web.title,
                                uri |-> call.chunks[k].web.uri]
           /\ \A i, j \in 1..Len(src) : src[i].uri = src[j].uri => i = j
           /\ \A k \in GoodChunks :
                  \E i \in 1..Len(src) : src[i].uri = call.chunks[k].web.uri
           /\ \A i, j \in 1..Len(src) :
                  i < j => FirstOccurrence(src[i].uri) < FirstOccurrence(src[j].uri)

\* a response whose chunks repeat a uri around another one and hold a chunk
\* without a web uri has been answered with two sources
RepeatedUriAnswered ==
    /\ call.phase = "resolved"
    /\ Len(call.chunks) = 4
    /\ \E k \in 1..4 : ~HasWebUriAndTitle(call.chunks[k])
    /\ \E k, m, n \in GoodChunks :
          /\ k < m /\ m < n
          /\ call.chunks[k].web.uri = call.chunks[n].web.uri
          /\ call.chunks[k].web.uri # call.chunks[m].web.uri
    /\ Len(solver.result.sources) = 2

====
